---- MODULE Spec2Model ----
(***************************************************************************)
(* Model of cmd/influxd/node.go: the Node of an influxd process, which     *)
(* opens a broker (raft log layer) and a data node (server layer) and      *)
(* either initializes each as the first member of a cluster or joins it    *)
(* to an existing cluster through a list of candidate URLs.                *)
(*                                                                         *)
(* The raft log, the broker, the messaging client and the server are       *)
(* collaborators: what their calls return is drawn from small sets, and    *)
(* every call node.go makes on them is recorded, in order, in logCalls     *)
(* (raft log handle) and srvCalls (messaging client and server handle).    *)
(***************************************************************************)
EXTENDS Naturals, Sequences, FiniteSets

VARIABLES
    hostname,        \* Node.hostname
    clusterListener, \* Node.clusterListener: NilListener or [port |-> p]
    Broker,          \* Node.Broker: "nil", "new" (created), "open"
    raftLog,         \* Node.raftLog: "nil", "new" (created), "open"
    pc,              \* position of the main startup path
    exit,            \* "" while the process runs, else how it terminated
    brokerCalled,    \* openBroker has been called in this process
    serverCalled,    \* openServer has been called in this process
    brokerURLs,      \* openBroker's argument
    index,           \* openBroker's local: index read from LastLogIndexTerm
    bi,              \* joinLog: position of the range loop (1-based)
    logCalls,        \* calls made on the raft log handle, in order
    brokerRet,       \* openBroker has returned to its caller
    joinURLs,        \* openServer's argument
    clientURLs,      \* the messaging client's URLs, c.URLs()
    server,          \* openServer's local n: NilServer or [open, id]
    u,               \* joinOrInitializeServer's parameter u (local URL)
    si,              \* joinOrInitializeServer: position of the range loop
    srvCalls,        \* calls made on the client and the server, in order
    serverRet,       \* what openServer returned: NilServer or the handle n
    apiListener,     \* Node.apiListener: NilListener or [port |-> p]
    adminServer,     \* Node.adminServer: "nil" or "set"
    GraphiteServers, \* Node.GraphiteServers: the slice, as <<1, ..., n>>
    OpenTSDBServer,  \* Node.OpenTSDBServer: "nil" or "set"
    DataNode,        \* Node.DataNode: NilServer or the handle openServer returned
    netListener,     \* the net.Listener behind each listener field:
                     \* "none", "listening" or "closed"
    serveTask,       \* openListener's goroutine per listener:
                     \* "none", "serving" or "returned"
    serveErr,        \* the error http.Serve returned to that goroutine
    gi,              \* Close: position of the range loop over GraphiteServers
    closeCount,      \* number of calls of Node.Close so far
    closeCalls,      \* per call of Node.Close, the Close calls made on handles, in order
    closeRet         \* what each call of Node.Close returned, in order

vars == <<hostname, clusterListener, Broker, raftLog, pc, exit, brokerCalled,
          serverCalled, brokerURLs, index, bi, logCalls, brokerRet, joinURLs,
          clientURLs, server, u, si, srvCalls, serverRet, apiListener,
          adminServer, GraphiteServers, OpenTSDBServer, DataNode, netListener,
          serveTask, serveErr, gi, closeCount, closeCalls, closeRet>>

brokerVars == <<Broker, raftLog, brokerURLs, index, bi, logCalls, brokerRet>>
serverVars == <<joinURLs, clientURLs, server, u, si, srvCalls, serverRet>>
handleVars == <<apiListener, adminServer, GraphiteServers, OpenTSDBServer, DataNode>>
netVars == <<netListener, serveTask, serveErr>>
closeVars == <<gi, closeCount, closeCalls, closeRet>>

----------------------------------------------------------------------------
(* Bounds of the model *)

MaxSeeds == 3   \* longest candidate list (brokerURLs, joinURLs)
MaxIndex == 1   \* persisted raft index and persisted node id: 0..MaxIndex
MaxGraphite == 2 \* most Graphite servers a Node is given
MaxCloses == 2  \* most calls of Node.Close in one process

PeerHosts == {"peerA", "peerB"}
LocalHosts == {"local"}
Ports == {8086}

\* url.URL{Scheme: "http", Host: host:port}
URL(h, p) == [host |-> h, port |-> p]
PeerURLs == {URL(h, p) : h \in PeerHosts, p \in Ports}

\* all []url.URL of length 0..MaxSeeds
RECURSIVE SeqsUpTo(_, _)
SeqsUpTo(S, n) ==
    IF n = 0 THEN {<<>>}
    ELSE LET shorter == SeqsUpTo(S, n - 1)
         IN  shorter \cup {Append(s, x) : s \in {t \in shorter : Len(t) = n - 1}, x \in S}

URLLists == SeqsUpTo(PeerURLs, MaxSeeds)

NilListener == [nil |-> TRUE]
NilServer == [nil |-> TRUE]
NilURL == [nil |-> TRUE]

\* the two listeners of a Node
Listeners == {"cluster", "api"}

\* error values returned by the collaborators
LogJoinErrs == {"nil", "ErrInitialized", "err"}
SrvJoinErrs == {"nil", "ErrDataNodeNotFound", "err"}
Errs == {"nil", "err"}

\* what the messaging client file can hold when the client is opened
ClientFiles == {<<>>} \cup {<<x>> : x \in PeerURLs}

----------------------------------------------------------------------------
(* Node.ClusterURL and the fatal and panic exits *)

\* ClusterURL: the node's hostname with the port the cluster listener is
\* bound to. It dereferences s.clusterListener, so it panics when that is nil.
ClusterURLPanics == clusterListener = NilListener
ClusterURL == URL(hostname, clusterListener.port)

\* log.Fatalf: the process terminates; nothing runs afterwards
Fatal(msg) == /\ pc' = "exit"
              /\ exit' = msg

Panic == /\ pc' = "exit"
         /\ exit' = "panic"

Init ==
    /\ hostname \in LocalHosts
    /\ clusterListener = NilListener
    /\ Broker = "nil"
    /\ raftLog = "nil"
    /\ pc = "idle"
    /\ exit = ""
    /\ brokerCalled = FALSE
    /\ serverCalled = FALSE
    /\ brokerURLs = <<>>
    /\ index = 0
    /\ bi = 0
    /\ logCalls = <<>>
    /\ brokerRet = FALSE
    /\ joinURLs = <<>>
    /\ clientURLs = <<>>
    /\ server = NilServer
    /\ u = NilURL
    /\ si = 0
    /\ srvCalls = <<>>
    /\ serverRet = NilServer
    /\ apiListener = NilListener
    /\ adminServer = "nil"
    /\ GraphiteServers = <<>>
    /\ OpenTSDBServer = "nil"
    /\ DataNode = NilServer
    /\ netListener = [l \in Listeners |-> "none"]
    /\ serveTask = [l \in Listeners |-> "none"]
    /\ serveErr = [l \in Listeners |-> <<>>]
    /\ gi = 0
    /\ closeCount = 0
    /\ closeCalls = <<>>
    /\ closeRet = <<>>

----------------------------------------------------------------------------
(* openListener, openClusterListener, openAPIListener *)

\* errors http.Serve can return to openListener's goroutine, as the words of
\* err.Error(): once the listener is closed Accept fails with "use of closed
\* network connection"; while it listens, with some other accept error
ErrClosing == <<"use", "of", "closed", "network", "connection">>
AcceptErrs == {<<"invalid", "argument">>}
ServeErrs(l) == IF netListener[l] = "closed" THEN {ErrClosing} ELSE AcceptErrs

\* strings.Contains(err.Error(), "closed")
Contains(msg, word) == \E i \in 1..Len(msg) : msg[i] = word
ServeErrorIsClosedMut(msg) == FALSE
ServeErrorIsClosed(msg) == Contains(msg, "closed")

\* openListener: net.Listen either binds a port or fails; when it binds, the
\* goroutine serving the listener is started
openListener(l, ok) ==
    /\ netListener' = [netListener EXCEPT ![l] = IF ok THEN "listening" ELSE @]
    /\ serveTask' = [serveTask EXCEPT ![l] = IF ok THEN "serving" ELSE @]
    /\ serveErr' = serveErr

\* on failure openListener returns a nil listener, which openClusterListener
\* stores before returning the error
openClusterListener(ok, p) ==
    /\ pc = "idle"
    /\ clusterListener = NilListener
    /\ clusterListener' = IF ok THEN [port |-> p] ELSE NilListener
    /\ openListener("cluster", ok)
    /\ UNCHANGED <<hostname, pc, exit, brokerCalled, serverCalled>>
    /\ UNCHANGED brokerVars
    /\ UNCHANGED serverVars
    /\ UNCHANGED <<handleVars, closeVars>>

openAPIListener(ok, p) ==
    /\ pc = "idle"
    /\ apiListener = NilListener
    /\ apiListener' = IF ok THEN [port |-> p] ELSE NilListener
    /\ openListener("api", ok)
    /\ UNCHANGED <<hostname, clusterListener, pc, exit, brokerCalled, serverCalled>>
    /\ UNCHANGED brokerVars
    /\ UNCHANGED serverVars
    /\ UNCHANGED <<adminServer, GraphiteServers, OpenTSDBServer, DataNode>>
    /\ UNCHANGED closeVars

\* the goroutine of openListener: http.Serve returns err; an error whose text
\* contains "closed" ends the goroutine, any other error is fatal
openListener_Serve(l, msg) ==
    /\ pc # "exit"
    /\ serveTask[l] = "serving"
    /\ msg \in ServeErrs(l)
    /\ serveTask' = [serveTask EXCEPT ![l] = "returned"]
    /\ serveErr' = [serveErr EXCEPT ![l] = msg]
    /\ IF ServeErrorIsClosed(msg)
       THEN UNCHANGED <<pc, exit>>
       ELSE Fatal("server failed to serve")
    /\ UNCHANGED <<hostname, clusterListener, brokerCalled, serverCalled, netListener>>
    /\ UNCHANGED brokerVars
    /\ UNCHANGED serverVars
    /\ UNCHANGED <<handleVars, closeVars>>

\* openAdminServer: the server is stored before ListenAndServe, whose error
\* goes to the caller
openAdminServer ==
    /\ pc = "idle"
    /\ adminServer' = "set"
    /\ UNCHANGED <<hostname, clusterListener, pc, exit, brokerCalled, serverCalled>>
    /\ UNCHANGED brokerVars
    /\ UNCHANGED serverVars
    /\ UNCHANGED <<apiListener, GraphiteServers, OpenTSDBServer, DataNode>>
    /\ UNCHANGED <<netVars, closeVars>>

----------------------------------------------------------------------------
(* openBroker and joinLog *)

\* openBroker, up to the opening of the broker (b.Open)
openBroker_OpenBroker(urls, err) ==
    /\ pc = "idle"
    /\ ~brokerCalled
    /\ brokerCalled' = TRUE
    /\ brokerURLs' = urls
    /\ IF ClusterURLPanics
       THEN /\ Panic
            /\ UNCHANGED <<Broker, raftLog>>
       ELSE /\ raftLog' = "new"
            /\ IF err # "nil"
               THEN /\ Fatal("failed to open broker")
                    /\ Broker' = "new"
               ELSE /\ Broker' = "open"
                    /\ pc' = "openBroker_OpenLog"
                    /\ exit' = exit
    /\ UNCHANGED <<hostname, clusterListener, serverCalled, index, bi, logCalls,
                   brokerRet>>
    /\ UNCHANGED serverVars
    /\ UNCHANGED <<handleVars, netVars, closeVars>>

\* l.Open, then the read of the persisted index (l.LastLogIndexTerm)
openBroker_OpenLog(err, idx) ==
    /\ pc = "openBroker_OpenLog"
    /\ IF err # "nil"
       THEN /\ Fatal("raft")
            /\ UNCHANGED <<raftLog, index>>
       ELSE /\ raftLog' = "open"
            /\ index' = idx
            /\ pc' = "openBroker_Decide"
            /\ exit' = exit
    /\ UNCHANGED <<hostname, clusterListener, Broker, brokerCalled, serverCalled,
                   brokerURLs, bi, logCalls, brokerRet>>
    /\ UNCHANGED serverVars
    /\ UNCHANGED <<handleVars, netVars, closeVars>>

\* if index == 0
LogUninitializedMut(idx) == idx >= 0
LogUninitialized(idx) == idx = 0

\* if len(brokerURLs) > 0
HasJoinURLsMut(urls) == Len(urls) >= 0
HasJoinURLs(urls) == Len(urls) > 0

\* index == 0 with join URLs: s.joinLog(l, brokerURLs)
openBroker_JoinLog ==
    /\ pc = "openBroker_Decide"
    /\ LogUninitialized(index)
    /\ HasJoinURLs(brokerURLs)
    /\ pc' = "joinLog"
    /\ bi' = 1
    /\ UNCHANGED <<hostname, clusterListener, Broker, raftLog, exit, brokerCalled,
                   serverCalled, brokerURLs, index, logCalls, brokerRet>>
    /\ UNCHANGED serverVars
    /\ UNCHANGED <<handleVars, netVars, closeVars>>

\* the outcome of a failed l.Initialize
InitializeFailed(err) == err # "nil"

\* index == 0 without join URLs: l.Initialize()
openBroker_Initialize(err) ==
    /\ pc = "openBroker_Decide"
    /\ LogUninitialized(index)
    /\ ~HasJoinURLs(brokerURLs)
    /\ logCalls' = Append(logCalls, [op |-> "Initialize", err |-> err])
    /\ IF InitializeFailed(err)
       THEN /\ Fatal("initialize raft log")
            /\ brokerRet' = brokerRet
       ELSE /\ pc' = "idle"
            /\ exit' = exit
            /\ brokerRet' = TRUE
    /\ UNCHANGED <<hostname, clusterListener, Broker, raftLog, brokerCalled,
                   serverCalled, brokerURLs, index, bi>>
    /\ UNCHANGED serverVars
    /\ UNCHANGED <<handleVars, netVars, closeVars>>

\* index != 0: broker already member of cluster
openBroker_AlreadyMember ==
    /\ pc = "openBroker_Decide"
    /\ ~LogUninitialized(index)
    /\ pc' = "idle"
    /\ brokerRet' = TRUE
    /\ UNCHANGED <<hostname, clusterListener, Broker, raftLog, exit, brokerCalled,
                   serverCalled, brokerURLs, index, bi, logCalls>>
    /\ UNCHANGED serverVars
    /\ UNCHANGED <<handleVars, netVars, closeVars>>

\* joinLog: does the loop return after a Join that returned err?
JoinLogReturnsMutNil(err) == err = "ErrInitialized"
JoinLogReturnsMutInitialized(err) == err = "nil"
JoinLogReturns(err) == err = "ErrInitialized" \/ err = "nil"

\* joinLog: one iteration of the range loop over brokerURLs
joinLog_Join(err) ==
    /\ pc = "joinLog"
    /\ bi <= Len(brokerURLs)
    /\ logCalls' = Append(logCalls, [op |-> "Join", url |-> brokerURLs[bi], err |-> err])
    /\ IF JoinLogReturns(err)
       THEN /\ pc' = "idle"
            /\ bi' = bi
            /\ brokerRet' = TRUE
       ELSE /\ pc' = pc
            /\ bi' = bi + 1
            /\ brokerRet' = brokerRet
    /\ UNCHANGED <<hostname, clusterListener, Broker, raftLog, exit, brokerCalled,
                   serverCalled, brokerURLs, index>>
    /\ UNCHANGED serverVars
    /\ UNCHANGED <<handleVars, netVars, closeVars>>

\* joinLog: what follows the loop when no Join made it return
JoinLogExhaustedMut == /\ pc' = "idle"
                       /\ exit' = exit
JoinLogExhausted == Fatal("join: failed to connect raft log to any specified server")

joinLog_Exhausted ==
    /\ pc = "joinLog"
    /\ bi > Len(brokerURLs)
    /\ JoinLogExhausted
    /\ UNCHANGED <<hostname, clusterListener, Broker, raftLog, brokerCalled,
                   serverCalled, brokerURLs, index, bi, logCalls, brokerRet>>
    /\ UNCHANGED serverVars
    /\ UNCHANGED <<handleVars, netVars, closeVars>>

----------------------------------------------------------------------------
(* openServer and joinOrInitializeServer *)

\* openServer, up to the opening of the messaging client: NewMessagingClient
\* with the cluster URL, c.SetURLs(joinURLs), c.Open(file). The client is a
\* collaborator: after Open its URLs are the ones set or the ones of its file.
openServer_OpenClient(urls, err, loaded) ==
    /\ pc = "idle"
    /\ ~serverCalled
    /\ serverCalled' = TRUE
    /\ joinURLs' = urls
    /\ IF ClusterURLPanics
       THEN /\ Panic
            /\ UNCHANGED <<clientURLs, srvCalls>>
       ELSE /\ srvCalls' = Append(srvCalls, [op |-> "ClientOpen", err |-> err])
            /\ IF err # "nil"
               THEN /\ Fatal("messaging client error")
                    /\ clientURLs' = urls
               ELSE /\ clientURLs' = loaded
                    /\ pc' = "openServer_CheckURLs"
                    /\ exit' = exit
    /\ UNCHANGED <<hostname, clusterListener, brokerCalled, server, u, si, serverRet>>
    /\ UNCHANGED brokerVars
    /\ UNCHANGED <<handleVars, netVars, closeVars>>

\* if len(c.URLs()) == 0
NoBrokerURLsMut(urls) == FALSE
NoBrokerURLsMutInverted(urls) == Len(urls) # 0
NoBrokerURLs(urls) == Len(urls) = 0

openServer_NoBrokerURLs ==
    /\ pc = "openServer_CheckURLs"
    /\ NoBrokerURLs(clientURLs)
    /\ Fatal("messaging client has no broker URLs")
    /\ UNCHANGED <<hostname, clusterListener, brokerCalled, serverCalled>>
    /\ UNCHANGED brokerVars
    /\ UNCHANGED serverVars
    /\ UNCHANGED <<handleVars, netVars, closeVars>>

\* influxdb.NewServer() and n.Open(dir, c); n.ID() is the persisted identity
openServer_OpenServer(err, id) ==
    /\ pc = "openServer_CheckURLs"
    /\ ~NoBrokerURLs(clientURLs)
    /\ srvCalls' = srvCalls \o <<[op |-> "NewServer"], [op |-> "Open", err |-> err]>>
    /\ IF err # "nil"
       THEN /\ Fatal("failed to open data node")
            /\ server' = [open |-> FALSE, id |-> 0]
       ELSE /\ server' = [open |-> TRUE, id |-> id]
            /\ pc' = "openServer_Sleep"
            /\ exit' = exit
    /\ UNCHANGED <<hostname, clusterListener, brokerCalled, serverCalled,
                   joinURLs, clientURLs, u, si, serverRet>>
    /\ UNCHANGED brokerVars
    /\ UNCHANGED <<handleVars, netVars, closeVars>>

\* time.Sleep(1 * time.Second)
openServer_SleepMut ==
    /\ pc = "openServer_Sleep"
    /\ pc' = "openServer_Decide"
    /\ UNCHANGED <<hostname, clusterListener, exit, brokerCalled, serverCalled>>
    /\ UNCHANGED brokerVars
    /\ UNCHANGED serverVars
    /\ UNCHANGED <<handleVars, netVars, closeVars>>
openServer_Sleep ==
    /\ pc = "openServer_Sleep"
    /\ srvCalls' = Append(srvCalls, [op |-> "Sleep"])
    /\ pc' = "openServer_Decide"
    /\ UNCHANGED <<hostname, clusterListener, exit, brokerCalled, serverCalled,
                   joinURLs, clientURLs, server, u, si, serverRet>>
    /\ UNCHANGED brokerVars
    /\ UNCHANGED <<handleVars, netVars, closeVars>>

\* if n.ID() == 0
ServerUnassignedMut(id) == id >= 0
ServerUnassigned(id) == id = 0

\* n.ID() != 0: data node already member of cluster; return n
openServer_AlreadyMember ==
    /\ pc = "openServer_Decide"
    /\ ~ServerUnassigned(server.id)
    /\ serverRet' = server
    /\ pc' = "idle"
    /\ UNCHANGED <<hostname, clusterListener, exit, brokerCalled, serverCalled,
                   joinURLs, clientURLs, server, u, si, srvCalls>>
    /\ UNCHANGED brokerVars
    /\ UNCHANGED <<handleVars, netVars, closeVars>>

\* n.ID() == 0: s.joinOrInitializeServer(n, *s.ClusterURL(), joinURLs)
openServer_JoinOrInitialize ==
    /\ pc = "openServer_Decide"
    /\ ServerUnassigned(server.id)
    /\ IF ClusterURLPanics
       THEN /\ Panic
            /\ UNCHANGED <<u, si>>
       ELSE /\ u' = ClusterURL
            /\ si' = 1
            /\ pc' = "joinOrInitializeServer"
            /\ exit' = exit
    /\ UNCHANGED <<hostname, clusterListener, brokerCalled, serverCalled,
                   joinURLs, clientURLs, server, srvCalls, serverRet>>
    /\ UNCHANGED brokerVars
    /\ UNCHANGED <<handleVars, netVars, closeVars>>

\* joinOrInitializeServer: what the loop does after a Join that returned err
ServerJoinBranchMutNotFound(err) ==
    IF err # "nil" THEN "next" ELSE "return"
ServerJoinBranchMutNil(err) ==
    IF err = "ErrDataNodeNotFound" \/ err = "nil" THEN "initialize" ELSE "next"
ServerJoinBranch(err) ==
    IF err = "ErrDataNodeNotFound" THEN "initialize"
    ELSE IF err # "nil" THEN "next"
    ELSE "return"

\* the URL n.Initialize is given inside the loop
ServerInitializeURL(self, joinURL) == self

\* joinOrInitializeServer: one iteration of the range loop over joinURLs, up
\* to the return of n.Join; after ErrDataNodeNotFound the main path goes on to
\* n.Initialize, a call of its own
joinOrInitializeServer_Join(err) ==
    /\ pc = "joinOrInitializeServer"
    /\ si <= Len(joinURLs)
    /\ LET join == [op |-> "Join", self |-> u, url |-> joinURLs[si], err |-> err]
           branch == ServerJoinBranch(err)
       IN  /\ srvCalls' = Append(srvCalls, join)
           /\ CASE branch = "initialize" ->
                  /\ si' = si
                  /\ pc' = "joinOrInitializeServer_Initialize"
                  /\ UNCHANGED <<exit, serverRet>>
              [] branch = "next" ->
                  /\ si' = si + 1
                  /\ UNCHANGED <<pc, exit, serverRet>>
              [] OTHER ->
                  /\ si' = si
                  /\ serverRet' = server
                  /\ pc' = "idle"
                  /\ exit' = exit
    /\ UNCHANGED <<hostname, clusterListener, brokerCalled, serverCalled,
                   joinURLs, clientURLs, server, u>>
    /\ UNCHANGED brokerVars
    /\ UNCHANGED <<handleVars, netVars, closeVars>>

\* joinOrInitializeServer: n.Initialize(u) after a Join that returned
\* ErrDataNodeNotFound
joinOrInitializeServer_InitializeAfterJoin(ierr) ==
    /\ pc = "joinOrInitializeServer_Initialize"
    /\ srvCalls' = Append(srvCalls,
                          [op |-> "Initialize",
                           url |-> ServerInitializeURL(u, joinURLs[si]),
                           err |-> ierr])
    /\ IF ierr # "nil"
       THEN /\ Fatal("server initialization error(1)")
            /\ serverRet' = serverRet
       ELSE /\ serverRet' = server
            /\ pc' = "idle"
            /\ exit' = exit
    /\ UNCHANGED <<hostname, clusterListener, brokerCalled, serverCalled,
                   joinURLs, clientURLs, server, u, si>>
    /\ UNCHANGED brokerVars
    /\ UNCHANGED <<handleVars, netVars, closeVars>>

\* if len(joinURLs) == 0, after the loop
NoJoinURLsMut(urls) == TRUE
NoJoinURLs(urls) == Len(urls) = 0

\* joinOrInitializeServer: no join URLs, n.Initialize(u)
joinOrInitializeServer_Initialize(err) ==
    /\ pc = "joinOrInitializeServer"
    /\ si > Len(joinURLs)
    /\ NoJoinURLs(joinURLs)
    /\ srvCalls' = Append(srvCalls, [op |-> "Initialize", url |-> u, err |-> err])
    /\ IF err # "nil"
       THEN /\ Fatal("server initialization error(2)")
            /\ serverRet' = serverRet
       ELSE /\ serverRet' = server
            /\ pc' = "idle"
            /\ exit' = exit
    /\ UNCHANGED <<hostname, clusterListener, brokerCalled, serverCalled,
                   joinURLs, clientURLs, server, u, si>>
    /\ UNCHANGED brokerVars
    /\ UNCHANGED <<handleVars, netVars, closeVars>>

\* joinOrInitializeServer: every candidate failed
joinOrInitializeServer_Exhausted ==
    /\ pc = "joinOrInitializeServer"
    /\ si > Len(joinURLs)
    /\ ~NoJoinURLs(joinURLs)
    /\ Fatal("join: failed to connect data node to any specified server")
    /\ UNCHANGED <<hostname, clusterListener, brokerCalled, serverCalled>>
    /\ UNCHANGED brokerVars
    /\ UNCHANGED serverVars
    /\ UNCHANGED <<handleVars, netVars, closeVars>>

----------------------------------------------------------------------------
(* The fields a Node's owner assigns *)

\* s.DataNode = s.openServer(joinURLs): the handle openServer returned
setDataNode ==
    /\ pc = "idle"
    /\ serverRet # NilServer
    /\ DataNode = NilServer
    /\ DataNode' = serverRet
    /\ UNCHANGED <<hostname, clusterListener, pc, exit, brokerCalled, serverCalled>>
    /\ UNCHANGED brokerVars
    /\ UNCHANGED serverVars
    /\ UNCHANGED <<apiListener, adminServer, GraphiteServers, OpenTSDBServer>>
    /\ UNCHANGED <<netVars, closeVars>>

\* s.GraphiteServers = append(s.GraphiteServers, g), n servers in all
setGraphiteServers(n) ==
    /\ pc = "idle"
    /\ GraphiteServers = <<>>
    /\ GraphiteServers' = [i \in 1..n |-> i]
    /\ UNCHANGED <<hostname, clusterListener, pc, exit, brokerCalled, serverCalled>>
    /\ UNCHANGED brokerVars
    /\ UNCHANGED serverVars
    /\ UNCHANGED <<apiListener, adminServer, OpenTSDBServer, DataNode>>
    /\ UNCHANGED <<netVars, closeVars>>

\* s.OpenTSDBServer = o
setOpenTSDBServer ==
    /\ pc = "idle"
    /\ OpenTSDBServer = "nil"
    /\ OpenTSDBServer' = "set"
    /\ UNCHANGED <<hostname, clusterListener, pc, exit, brokerCalled, serverCalled>>
    /\ UNCHANGED brokerVars
    /\ UNCHANGED serverVars
    /\ UNCHANGED <<apiListener, adminServer, GraphiteServers, DataNode>>
    /\ UNCHANGED <<netVars, closeVars>>

----------------------------------------------------------------------------
(* Node.Close *)

\* errors a Close of an owned handle can return
CloseErr ==
    [clusterListener |-> "errClusterListener", apiListener |-> "errAPIListener",
     adminServer |-> "errAdminServer", GraphiteServers |-> "errGraphiteServer",
     OpenTSDBServer |-> "errOpenTSDBServer", DataNode |-> "errDataNode",
     raftLog |-> "errRaftLog", Broker |-> "errBroker"]
\* what the Close of handle h can return: nil, or that handle's own error
CloseErrs(h) == {"nil", CloseErr[h]}

\* the statements of Node.Close, in order; pc is at one of them while Close runs
CloseOrderMutRaftLogFirst ==
    <<"Close_clusterListener", "Close_apiListener", "Close_adminServer",
      "Close_GraphiteServers", "Close_OpenTSDBServer", "Close_raftLog",
      "Close_DataNode", "Close_Broker">>
CloseOrderMutBrokerFirst ==
    <<"Close_clusterListener", "Close_apiListener", "Close_adminServer",
      "Close_GraphiteServers", "Close_OpenTSDBServer", "Close_DataNode",
      "Close_Broker", "Close_raftLog">>
CloseOrder ==
    <<"Close_clusterListener", "Close_apiListener", "Close_adminServer",
      "Close_GraphiteServers", "Close_OpenTSDBServer", "Close_DataNode",
      "Close_raftLog", "Close_Broker">>

\* the statement after `at`, or "return" after the last one (return nil)
AfterClose(at) ==
    LET k == CHOOSE i \in 1..Len(CloseOrder) : CloseOrder[i] = at
    IN  IF k = Len(CloseOrder) THEN "return" ELSE CloseOrder[k + 1]

\* if err != nil { return err }
CloseAbortsMut(err) == FALSE
CloseAborts(err) == err # "nil"

\* what Close returns when a handle's Close returned err
CloseReturns(err) == err

\* the nil tests guarding the Close of a handle
IsSetMut(h) == TRUE
IsSet(h) == h # "nil"
ListenerIsSet(l) == l # NilListener
ServerIsSet(n) == n # NilServer

\* the record of the Close calls once the call-th call of Node.Close has begun
InCall(call) ==
    IF call > Len(closeCalls) THEN Append(closeCalls, <<>>) ELSE closeCalls

\* one statement of Close on handle h (`called`: its Close is invoked, with
\* result err): the call is recorded; an error returns it from Close,
\* otherwise Close goes on to the next statement or returns nil
CloseStatement(at, call, called, h, err) ==
    /\ closeCalls' = IF called
                     THEN [InCall(call) EXCEPT
                              ![call] = Append(@, [call |-> call, h |-> h, err |-> err])]
                     ELSE InCall(call)
    /\ IF called /\ CloseAborts(err)
       THEN /\ pc' = "idle"
            /\ closeRet' = Append(closeRet, CloseReturns(err))
       ELSE IF AfterClose(at) = "return"
       THEN /\ pc' = "idle"
            /\ closeRet' = Append(closeRet, "nil")
       ELSE /\ pc' = AfterClose(at)
            /\ closeRet' = closeRet

\* closeClusterListener and closeAPIListener: what the field holds after the
\* listener's Close returned err
ListenerAfterCloseMut(l, err) == l
ListenerAfterClose(l, err) == NilListener

\* the net.Listener after its Close returned err
NetListenerAfterClose(l, err) ==
    [netListener EXCEPT ![l] = IF err = "nil" THEN "closed" ELSE @]

\* Close is called: s.closeClusterListener()
Close_ClusterListener(err) ==
    /\ pc = "idle"
    /\ closeCount < MaxCloses
    /\ closeCount' = closeCount + 1
    /\ gi' = 1
    /\ LET called == ListenerIsSet(clusterListener)
       IN  /\ CloseStatement("Close_clusterListener", closeCount + 1, called,
                             "clusterListener", err)
           /\ clusterListener' = IF called
                                 THEN ListenerAfterClose(clusterListener, err)
                                 ELSE clusterListener
           /\ netListener' = IF called
                             THEN NetListenerAfterClose("cluster", err)
                             ELSE netListener
    /\ UNCHANGED <<hostname, exit, brokerCalled, serverCalled, serveTask, serveErr>>
    /\ UNCHANGED brokerVars
    /\ UNCHANGED serverVars
    /\ UNCHANGED handleVars

\* s.closeAPIListener()
Close_APIListener(err) ==
    /\ pc = "Close_apiListener"
    /\ LET called == ListenerIsSet(apiListener)
       IN  /\ CloseStatement("Close_apiListener", closeCount, called,
                             "apiListener", err)
           /\ apiListener' = IF called
                             THEN ListenerAfterClose(apiListener, err)
                             ELSE apiListener
           /\ netListener' = IF called
                             THEN NetListenerAfterClose("api", err)
                             ELSE netListener
    /\ UNCHANGED <<hostname, clusterListener, exit, brokerCalled, serverCalled,
                   serveTask, serveErr, gi, closeCount>>
    /\ UNCHANGED brokerVars
    /\ UNCHANGED serverVars
    /\ UNCHANGED <<adminServer, GraphiteServers, OpenTSDBServer, DataNode>>

\* closeAdminServer: what the field holds after the server's Close
AdminServerAfterCloseMut(a, err) == "nil"
AdminServerAfterClose(a, err) == a

\* s.closeAdminServer()
Close_AdminServer(err) ==
    /\ pc = "Close_adminServer"
    /\ CloseStatement("Close_adminServer", closeCount, IsSet(adminServer),
                      "adminServer", err)
    /\ adminServer' = IF IsSet(adminServer)
                      THEN AdminServerAfterClose(adminServer, err)
                      ELSE adminServer
    /\ UNCHANGED <<hostname, clusterListener, exit, brokerCalled, serverCalled,
                   gi, closeCount>>
    /\ UNCHANGED brokerVars
    /\ UNCHANGED serverVars
    /\ UNCHANGED <<apiListener, GraphiteServers, OpenTSDBServer, DataNode>>
    /\ UNCHANGED netVars

\* for _, g := range s.GraphiteServers: one iteration, g.Close()
Close_GraphiteServer(err) ==
    /\ pc = "Close_GraphiteServers"
    /\ gi <= Len(GraphiteServers)
    /\ closeCalls' = [closeCalls EXCEPT
                          ![closeCount] =
                             Append(@, [call |-> closeCount, h |-> "GraphiteServers",
                                        i |-> GraphiteServers[gi], err |-> err])]
    /\ IF CloseAborts(err)
       THEN /\ pc' = "idle"
            /\ closeRet' = Append(closeRet, CloseReturns(err))
            /\ gi' = gi
       ELSE /\ pc' = pc
            /\ closeRet' = closeRet
            /\ gi' = gi + 1
    /\ UNCHANGED <<hostname, clusterListener, exit, brokerCalled, serverCalled,
                   closeCount>>
    /\ UNCHANGED brokerVars
    /\ UNCHANGED serverVars
    /\ UNCHANGED <<handleVars, netVars>>

\* the range loop over s.GraphiteServers is over
Close_GraphiteServersEnd ==
    /\ pc = "Close_GraphiteServers"
    /\ gi > Len(GraphiteServers)
    /\ CloseStatement("Close_GraphiteServers", closeCount, FALSE, "GraphiteServers", "nil")
    /\ UNCHANGED <<hostname, clusterListener, exit, brokerCalled, serverCalled,
                   gi, closeCount>>
    /\ UNCHANGED brokerVars
    /\ UNCHANGED serverVars
    /\ UNCHANGED <<handleVars, netVars>>

\* if s.OpenTSDBServer != nil { s.OpenTSDBServer.Close() }
Close_OpenTSDBServer(err) ==
    /\ pc = "Close_OpenTSDBServer"
    /\ CloseStatement("Close_OpenTSDBServer", closeCount, IsSet(OpenTSDBServer),
                      "OpenTSDBServer", err)
    /\ UNCHANGED <<hostname, clusterListener, exit, brokerCalled, serverCalled,
                   gi, closeCount>>
    /\ UNCHANGED brokerVars
    /\ UNCHANGED serverVars
    /\ UNCHANGED <<handleVars, netVars>>

\* if s.DataNode != nil { s.DataNode.Close() }
Close_DataNode(err) ==
    /\ pc = "Close_DataNode"
    /\ CloseStatement("Close_DataNode", closeCount, ServerIsSet(DataNode),
                      "DataNode", err)
    /\ UNCHANGED <<hostname, clusterListener, exit, brokerCalled, serverCalled,
                   gi, closeCount>>
    /\ UNCHANGED brokerVars
    /\ UNCHANGED serverVars
    /\ UNCHANGED <<handleVars, netVars>>

\* if s.raftLog != nil { s.raftLog.Close() }
Close_RaftLog(err) ==
    /\ pc = "Close_raftLog"
    /\ CloseStatement("Close_raftLog", closeCount, IsSet(raftLog), "raftLog", err)
    /\ UNCHANGED <<hostname, clusterListener, exit, brokerCalled, serverCalled,
                   gi, closeCount>>
    /\ UNCHANGED brokerVars
    /\ UNCHANGED serverVars
    /\ UNCHANGED <<handleVars, netVars>>

\* if s.Broker != nil { s.Broker.Close() }
Close_Broker(err) ==
    /\ pc = "Close_Broker"
    /\ CloseStatement("Close_Broker", closeCount, IsSet(Broker), "Broker", err)
    /\ UNCHANGED <<hostname, clusterListener, exit, brokerCalled, serverCalled,
                   gi, closeCount>>
    /\ UNCHANGED brokerVars
    /\ UNCHANGED serverVars
    /\ UNCHANGED <<handleVars, netVars>>

----------------------------------------------------------------------------
(* The process *)

Next ==
    \/ \E ok \in BOOLEAN, p \in Ports : openClusterListener(ok, p)
    \/ \E urls \in URLLists, err \in Errs : openBroker_OpenBroker(urls, err)
    \/ \E err \in Errs, idx \in 0..MaxIndex : openBroker_OpenLog(err, idx)
    \/ openBroker_JoinLog
    \/ \E err \in Errs : openBroker_Initialize(err)
    \/ openBroker_AlreadyMember
    \/ \E err \in LogJoinErrs : joinLog_Join(err)
    \/ joinLog_Exhausted
    \/ \E urls \in URLLists, err \in Errs :
          \E loaded \in {urls} \cup ClientFiles :
             openServer_OpenClient(urls, err, loaded)
    \/ openServer_NoBrokerURLs
    \/ \E err \in Errs, id \in 0..MaxIndex : openServer_OpenServer(err, id)
    \/ openServer_Sleep
    \/ openServer_AlreadyMember
    \/ openServer_JoinOrInitialize
    \/ \E err \in SrvJoinErrs : joinOrInitializeServer_Join(err)
    \/ \E ierr \in Errs : joinOrInitializeServer_InitializeAfterJoin(ierr)
    \/ \E err \in Errs : joinOrInitializeServer_Initialize(err)
    \/ joinOrInitializeServer_Exhausted
    \/ \E l \in Listeners : \E msg \in ServeErrs(l) : openListener_Serve(l, msg)

Spec == Init /\ [][Next]_vars

----------------------------------------------------------------------------
(* The life of a Node: start sequence, serving, shutdown *)

\* the order in which the start sequence acquires the handles
AcquireOrder ==
    <<"clusterListener", "apiListener", "Broker", "raftLog", "DataNode",
      "adminServer", "GraphiteServers", "OpenTSDBServer">>

\* the start sequence has taken the step that acquires handle h
Started(h) ==
    CASE h = "clusterListener" -> netListener["cluster"] # "none"
      [] h = "apiListener" -> netListener["api"] # "none"
      [] h = "Broker" -> brokerCalled
      [] h = "raftLog" -> brokerCalled
      [] h = "DataNode" -> serverCalled
      [] h = "adminServer" -> adminServer # "nil"
      [] h = "GraphiteServers" -> GraphiteServers # <<>>
      [] h = "OpenTSDBServer" -> OpenTSDBServer # "nil"

AcquirePos(h) == CHOOSE i \in 1..Len(AcquireOrder) : AcquireOrder[i] = h

\* openServer's result has been stored in s.DataNode
DataNodeStored == serverRet # NilServer => DataNode # NilServer

\* the start sequence may take the step that acquires h: nothing acquired
\* at or after h has been started, and shutdown has not begun
MayStart(h) ==
    /\ closeCount = 0
    /\ DataNodeStored
    /\ \A i \in AcquirePos(h)..Len(AcquireOrder) : ~Started(AcquireOrder[i])

\* the candidate lists of the Nodes whose whole life is followed: none, or
\* one peer
LifeURLLists == {<<>>, <<URL("peerA", 8086)>>}
\* the persisted raft index and node id of the Nodes whose whole life is
\* followed: 0 on empty directories, 1 on a restart
LifeIndexes == {0, 1}
\* the messaging client files of those Nodes
LifeClientFiles == {<<>>, <<URL("peerA", 8086)>>}

LifeNext ==
    \/ /\ MayStart("clusterListener")
       /\ \E ok \in BOOLEAN, p \in Ports : openClusterListener(ok, p)
    \/ /\ MayStart("apiListener")
       /\ \E ok \in BOOLEAN, p \in Ports : openAPIListener(ok, p)
    \/ /\ MayStart("Broker")
       /\ \E urls \in LifeURLLists, err \in Errs : openBroker_OpenBroker(urls, err)
    \/ \E err \in Errs, idx \in LifeIndexes : openBroker_OpenLog(err, idx)
    \/ openBroker_JoinLog
    \/ \E err \in Errs : openBroker_Initialize(err)
    \/ openBroker_AlreadyMember
    \/ \E err \in LogJoinErrs : joinLog_Join(err)
    \/ joinLog_Exhausted
    \/ /\ MayStart("DataNode")
       /\ \E urls \in LifeURLLists, err \in Errs :
             \E loaded \in LifeClientFiles :
                openServer_OpenClient(urls, err, loaded)
    \/ openServer_NoBrokerURLs
    \/ \E err \in Errs, id \in LifeIndexes : openServer_OpenServer(err, id)
    \/ openServer_Sleep
    \/ openServer_AlreadyMember
    \/ openServer_JoinOrInitialize
    \/ \E err \in SrvJoinErrs : joinOrInitializeServer_Join(err)
    \/ \E ierr \in Errs : joinOrInitializeServer_InitializeAfterJoin(ierr)
    \/ \E err \in Errs : joinOrInitializeServer_Initialize(err)
    \/ joinOrInitializeServer_Exhausted
    \/ setDataNode
    \/ /\ MayStart("adminServer")
       /\ openAdminServer
    \/ /\ MayStart("GraphiteServers")
       /\ \E n \in 1..MaxGraphite : setGraphiteServers(n)
    \/ /\ MayStart("OpenTSDBServer")
       /\ setOpenTSDBServer
    \/ \E l \in Listeners : \E msg \in ServeErrs(l) : openListener_Serve(l, msg)
    \/ /\ DataNodeStored
       /\ \E err \in CloseErrs("clusterListener") : Close_ClusterListener(err)
    \/ \E err \in CloseErrs("apiListener") : Close_APIListener(err)
    \/ \E err \in CloseErrs("adminServer") : Close_AdminServer(err)
    \/ \E err \in CloseErrs("GraphiteServers") : Close_GraphiteServer(err)
    \/ Close_GraphiteServersEnd
    \/ \E err \in CloseErrs("OpenTSDBServer") : Close_OpenTSDBServer(err)
    \/ \E err \in CloseErrs("DataNode") : Close_DataNode(err)
    \/ \E err \in CloseErrs("raftLog") : Close_RaftLog(err)
    \/ \E err \in CloseErrs("Broker") : Close_Broker(err)

LifeSpec == Init /\ [][LifeNext]_vars

----------------------------------------------------------------------------
(* Vocabulary of the properties *)

IsJoin(c) == c.op = "Join"
IsInitialize(c) == c.op = "Initialize"
Joins(calls) == SelectSeq(calls, IsJoin)
Initializes(calls) == SelectSeq(calls, IsInitialize)

\* openBroker has read the index and acted on it
BrokerDecided == raftLog = "open" /\ pc # "openBroker_Decide"
\* joinLog has been entered
JoinLogEntered == bi >= 1
\* the messaging client was opened without error
ClientOpened == srvCalls # <<>> /\ srvCalls[1].err = "nil"
\* the data node was opened without error
ServerOpened == server # NilServer /\ server.open
\* openServer has acted on n.ID()
ServerDecided == ServerOpened /\ pc \notin {"openServer_Sleep", "openServer_Decide"}
\* joinOrInitializeServer has been entered
JoinServerEntered == si >= 1

\* a listener's serve goroutine has ended the process (log.Fatalf in
\* openListener) wherever the main path was
ServeFatal == pc = "exit" /\ exit = "server failed to serve"

FatalJoinLog == "join: failed to connect raft log to any specified server"
FatalJoinServer == "join: failed to connect data node to any specified server"

----------------------------------------------------------------------------
(* Properties *)

\* C1: joinLog calls Join on the seeds in list order (the j-th call is on the
\* j-th seed). A Join that returns no error stops the loop: if it is the
\* k-th call, the k-1 calls before it are failed Joins on seeds 1..k-1, no
\* call follows it, openBroker returns, and Initialize is never called.
C1_JoinLogInOrderUntilFirstSuccess ==
    /\ \A j \in 1..Len(logCalls) :
          IsJoin(logCalls[j]) =>
             /\ j <= Len(brokerURLs)
             /\ logCalls[j].url = brokerURLs[j]
    /\ \A k \in 1..Len(logCalls) :
          (IsJoin(logCalls[k]) /\ logCalls[k].err = "nil") =>
             /\ Len(logCalls) = k
             /\ \A j \in 1..(k - 1) : IsJoin(logCalls[j]) /\ logCalls[j].err = "err"
             /\ pc # "joinLog"
             /\ bi = k
             /\ brokerRet
    /\ JoinLogEntered => Initializes(logCalls) = <<>>

\* three seeds of which only the third answers
C1_Witness ==
    /\ Len(brokerURLs) = 3
    /\ Len(logCalls) = 3
    /\ logCalls[1].err = "err" /\ logCalls[2].err = "err"
    /\ IsJoin(logCalls[3]) /\ logCalls[3].err = "nil"
    /\ brokerURLs[1] # brokerURLs[3]

\* C2: once the index read after l.Open is non-zero, openBroker calls
\* neither Join nor Initialize, whatever brokerURLs is, and its only step is
\* to return to its caller: it does not terminate the process (which only a
\* listener's serve goroutine can then end).
C2_NonZeroIndexIgnoresSeeds ==
    index # 0 =>
       /\ logCalls = <<>>
       /\ pc # "joinLog"
       /\ exit \notin {FatalJoinLog, "initialize raft log"}
       /\ pc = "openBroker_Decide" =>
             (ENABLED openBroker_AlreadyMember
                /\ ~ENABLED (openBroker_JoinLog \/ \E err \in Errs : openBroker_Initialize(err)))
       /\ (BrokerDecided /\ ~ServeFatal) => brokerRet

C2_Witness ==
    /\ index # 0
    /\ BrokerDecided
    /\ Len(brokerURLs) > 0
    /\ brokerRet

\* C3: a Join of joinLog that returns raft.ErrInitialized, at whatever
\* position, is the last call on the raft log: no later seed is contacted,
\* Initialize is not called, and openBroker returns (no fatal).
C3_ErrInitializedEndsLoopAsSuccess ==
    \A k \in 1..Len(logCalls) :
       (IsJoin(logCalls[k]) /\ logCalls[k].err = "ErrInitialized") =>
          /\ Len(logCalls) = k
          /\ Initializes(logCalls) = <<>>
          /\ pc # "joinLog"
          /\ brokerRet
          /\ exit # FatalJoinLog

\* the second of three seeds answers "already initialized"
C3_Witness ==
    /\ Len(brokerURLs) = 3
    /\ Len(logCalls) = 2
    /\ logCalls[1].err = "err"
    /\ IsJoin(logCalls[2]) /\ logCalls[2].err = "ErrInitialized"
    /\ brokerRet

\* C4: in joinLog every position of the list is tried at most once (the
\* j-th call is on position j, never more calls than seeds), the loop can
\* always take its next step, and when every seed's Join returned an
\* ordinary error the only outcome of the main path is the fatal exit:
\* openBroker does not return and Initialize is not called. (A listener's
\* serve goroutine may end the process before the main path gets there.)
C4_AllSeedsFailIsFatal ==
    /\ Len(Joins(logCalls)) <= Len(brokerURLs)
    /\ pc = "joinLog" =>
          /\ bi = Len(logCalls) + 1
          /\ ENABLED (joinLog_Exhausted \/ \E err \in LogJoinErrs : joinLog_Join(err))
    /\ ( /\ JoinLogEntered
         /\ Len(logCalls) = Len(brokerURLs)
         /\ \A j \in 1..Len(logCalls) : logCalls[j].err = "err" ) =>
          /\ \A j \in 1..Len(logCalls) :
                IsJoin(logCalls[j]) /\ logCalls[j].url = brokerURLs[j]
          /\ ~brokerRet
          /\ \/ /\ pc = "joinLog"
                /\ ~ENABLED (\E err \in LogJoinErrs : joinLog_Join(err))
                /\ ENABLED joinLog_Exhausted
             \/ pc = "exit" /\ exit = FatalJoinLog
             \/ ServeFatal

C4_Witness ==
    /\ Len(brokerURLs) = 3
    /\ Len(logCalls) = 3
    /\ \A j \in 1..3 : IsJoin(logCalls[j]) /\ logCalls[j].err = "err"
    /\ exit = FatalJoinLog

\* C5: with index 0 and an empty seed list, openBroker calls Initialize
\* exactly once and never Join; a failed Initialize is a fatal exit, a
\* successful one lets openBroker return. Before that call the main path's
\* only step is the Initialize (unless a listener's serve goroutine has
\* ended the process).
C5_EmptySeedsSelfInitialize ==
    /\ (raftLog = "open" /\ index = 0 /\ brokerURLs = <<>>) =>
          /\ Joins(logCalls) = <<>>
          /\ Len(logCalls) <= 1
          /\ pc # "joinLog"
          /\ pc = "openBroker_Decide" =>
                (ENABLED (\E err \in Errs : openBroker_Initialize(err))
                   /\ ~ENABLED (openBroker_JoinLog \/ openBroker_AlreadyMember))
          /\ logCalls = <<>> => (pc = "openBroker_Decide" \/ ServeFatal)
    /\ (BrokerDecided /\ index = 0 /\ brokerURLs = <<>> /\ logCalls # <<>>) =>
       /\ Len(logCalls) = 1
       /\ IsInitialize(logCalls[1])
       /\ logCalls[1].err # "nil" => (pc = "exit" /\ exit = "initialize raft log" /\ ~brokerRet)
       /\ logCalls[1].err = "nil" => brokerRet

C5_Witness ==
    /\ BrokerDecided /\ index = 0 /\ brokerURLs = <<>>
    /\ logCalls[1].err # "nil"
    /\ exit = "initialize raft log"

\* C6: after a Join of joinOrInitializeServer that returned
\* ErrDataNodeNotFound, at whatever position, the only step of the main path
\* is one Initialize, given the local cluster URL, and no other call follows:
\* no later candidate is contacted. The main path's exit is fatal only if
\* that Initialize fails; otherwise openServer returns n. (Between the two
\* calls a listener's serve goroutine may end the process.)
C6_NoDataNodesSelfInitialize ==
    \A k \in 1..Len(srvCalls) :
       (IsJoin(srvCalls[k]) /\ srvCalls[k].err = "ErrDataNodeNotFound") =>
          /\ Len(srvCalls) <= k + 1
          /\ pc # "joinOrInitializeServer"
          /\ exit # FatalJoinServer
          /\ Len(srvCalls) = k =>
                /\ pc = "joinOrInitializeServer_Initialize" \/ ServeFatal
                /\ Initializes(srvCalls) = <<>>
                /\ serverRet = NilServer
                /\ pc = "joinOrInitializeServer_Initialize" =>
                      /\ ENABLED (\E ierr \in Errs :
                                    joinOrInitializeServer_InitializeAfterJoin(ierr))
                      /\ ~ENABLED (\E err \in SrvJoinErrs :
                                     joinOrInitializeServer_Join(err))
                      /\ ~ENABLED joinOrInitializeServer_Exhausted
          /\ Len(srvCalls) = k + 1 =>
                /\ IsInitialize(srvCalls[k + 1])
                /\ Len(Initializes(srvCalls)) = 1
                /\ srvCalls[k + 1].url = ClusterURL
                /\ srvCalls[k + 1].url = srvCalls[k].self
                /\ (srvCalls[k + 1].err = "nil" /\ ~ServeFatal) =>
                      (serverRet = server /\ ServerOpened)
                /\ srvCalls[k + 1].err # "nil" =>
                      (pc = "exit" /\ exit = "server initialization error(1)")

\* the second of three candidates answers "no data nodes found"
C6_Witness ==
    /\ Len(joinURLs) = 3
    /\ Len(Joins(srvCalls)) = 2
    /\ Joins(srvCalls)[1].err = "err"
    /\ Joins(srvCalls)[2].err = "ErrDataNodeNotFound"
    /\ Len(Initializes(srvCalls)) = 1
    /\ Initializes(srvCalls)[1].err = "nil"
    /\ serverRet = server

\* C7: when the opened data node's ID is non-zero, openServer makes no Join
\* and no Initialize call, whatever joinURLs is, and returns the opened
\* handle n (unless a listener's serve goroutine ends the process first).
C7_AssignedIdIgnoresJoinURLs ==
    (ServerOpened /\ server.id # 0) =>
       /\ Joins(srvCalls) = <<>>
       /\ Initializes(srvCalls) = <<>>
       /\ pc # "joinOrInitializeServer"
       /\ ~JoinServerEntered
       /\ pc = "openServer_Decide" =>
             (ENABLED openServer_AlreadyMember /\ ~ENABLED openServer_JoinOrInitialize)
       /\ (ServerDecided /\ ~ServeFatal) => (serverRet = server /\ serverRet.open)

C7_Witness ==
    /\ ServerOpened /\ server.id # 0
    /\ ServerDecided
    /\ Len(joinURLs) > 0
    /\ serverRet = server

\* C8: in joinOrInitializeServer with a non-empty joinURLs, the j-th Join is
\* on the j-th candidate, and when every candidate's Join returned an
\* ordinary error each was tried once, Initialize is never called and the
\* only outcome of the main path is the fatal exit (openServer does not
\* return); a listener's serve goroutine may end the process before that.
C8_AllCandidatesFailIsFatal ==
    /\ Len(Joins(srvCalls)) <= Len(joinURLs)
    /\ \A j \in 1..Len(Joins(srvCalls)) : Joins(srvCalls)[j].url = joinURLs[j]
    /\ ( /\ JoinServerEntered
         /\ Len(joinURLs) > 0
         /\ Len(Joins(srvCalls)) = Len(joinURLs)
         /\ \A j \in 1..Len(joinURLs) : Joins(srvCalls)[j].err = "err" ) =>
          /\ Initializes(srvCalls) = <<>>
          /\ serverRet = NilServer
          /\ \/ /\ pc = "joinOrInitializeServer" /\ si = Len(joinURLs) + 1
                /\ ENABLED joinOrInitializeServer_Exhausted
                /\ ~ENABLED (\E err \in Errs : joinOrInitializeServer_Initialize(err))
             \/ pc = "exit" /\ exit = FatalJoinServer
             \/ ServeFatal

C8_Witness ==
    /\ Len(joinURLs) = 3
    /\ Len(Joins(srvCalls)) = 3
    /\ \A j \in 1..3 : Joins(srvCalls)[j].err = "err"
    /\ exit = FatalJoinServer

\* C9 as claimed: on neither layer's handle is there ever both a Join call
\* and an Initialize call.
C9_NeverJoinAndInitialize ==
    /\ ~(Joins(logCalls) # <<>> /\ Initializes(logCalls) # <<>>)
    /\ ~(Joins(srvCalls) # <<>> /\ Initializes(srvCalls) # <<>>)

\* C9 as amended: the raft log never sees both a Join call and an
\* Initialize call; the data node sees an Initialize after a Join only when
\* that Join, the call just before it, returned ErrDataNodeNotFound; so on
\* neither handle is there both a successful Join and an Initialize, and on
\* each handle at most one Initialize and at most one successful Join.
C9_AtMostOneOfJoinedAndInitialized ==
    LET Succeeded(calls) == SelectSeq(Joins(calls), LAMBDA c : c.err = "nil")
    IN  /\ ~(Joins(logCalls) # <<>> /\ Initializes(logCalls) # <<>>)
        /\ \A k \in 1..Len(srvCalls) :
              (IsInitialize(srvCalls[k]) /\ Joins(srvCalls) # <<>>) =>
                 /\ k > 1
                 /\ IsJoin(srvCalls[k - 1])
                 /\ srvCalls[k - 1].err = "ErrDataNodeNotFound"
        /\ ~(Succeeded(logCalls) # <<>> /\ Initializes(logCalls) # <<>>)
        /\ ~(Succeeded(srvCalls) # <<>> /\ Initializes(srvCalls) # <<>>)
        /\ Len(Initializes(logCalls)) <= 1 /\ Len(Succeeded(logCalls)) <= 1
        /\ Len(Initializes(srvCalls)) <= 1 /\ Len(Succeeded(srvCalls)) <= 1

\* both layers bootstrapped in one process: the raft log joined, the data
\* node initialized itself after a Join answered "no data nodes found"
C9_Witness ==
    /\ Joins(logCalls) # <<>> /\ brokerRet
    /\ Joins(srvCalls) # <<>>
    /\ Initializes(srvCalls) # <<>>
    /\ serverRet = server /\ ServerOpened

\* C10: when the messaging client, opened without error, has no URLs,
\* the only step of openServer is the fatal exit "messaging client has no
\* broker URLs", and at that exit there has been no NewServer, no n.Open, no
\* Sleep, no Join and no Initialize: the client's Open is the only call
\* made. (The process can end earlier only by a listener's serve goroutine.)
C10_NoBrokerURLsIsFatalFirst ==
    (ClientOpened /\ Len(clientURLs) = 0) =>
       /\ pc = "openServer_CheckURLs" =>
             (ENABLED openServer_NoBrokerURLs
                /\ ~ENABLED (\E err \in Errs, id \in 0..MaxIndex :
                                openServer_OpenServer(err, id)))
       /\ pc # "openServer_CheckURLs" =>
             /\ pc = "exit"
             /\ exit = "messaging client has no broker URLs" \/ ServeFatal
       /\ Len(srvCalls) = 1
       /\ srvCalls[1].op = "ClientOpen"
       /\ server = NilServer
       /\ serverRet = NilServer
       /\ ~JoinServerEntered

C10_Witness ==
    /\ ClientOpened
    /\ Len(clientURLs) = 0
    /\ exit = "messaging client has no broker URLs"

\* C11: in openServer every Join and every Initialize on the data node comes
\* after the grace delay (the Sleep is an earlier call), and the delay
\* starts only after the data node was opened without error: the call just
\* before the Sleep is the successful n.Open, and there is one Sleep.
C11_GraceDelayBeforeJoinOrInitialize ==
    LET Sleeps == SelectSeq(srvCalls, LAMBDA c : c.op = "Sleep")
    IN  /\ Len(Sleeps) <= 1
        /\ \A k \in 1..Len(srvCalls) :
              (IsJoin(srvCalls[k]) \/ IsInitialize(srvCalls[k])) =>
                 \E j \in 1..(k - 1) : srvCalls[j].op = "Sleep"
        /\ \A j \in 1..Len(srvCalls) :
              srvCalls[j].op = "Sleep" =>
                 /\ j > 1
                 /\ srvCalls[j - 1].op = "Open"
                 /\ srvCalls[j - 1].err = "nil"
                 /\ ServerOpened
        /\ JoinServerEntered => Sleeps # <<>>
        /\ pc \in {"openServer_Decide", "joinOrInitializeServer"} => Sleeps # <<>>

C11_Witness ==
    /\ Len(srvCalls) >= 5
    /\ srvCalls[3].op = "Open" /\ srvCalls[4].op = "Sleep"
    /\ IsJoin(srvCalls[5])

\* C20: with an empty joinURLs and an unassigned data node, openServer
\* reaches the direct self-initialize (one Initialize, no Join) only when the
\* messaging client has at least one URL after Open, which then comes from
\* the client's file and not from joinURLs; when the client has no URL after
\* Open the outcome is the "no broker URLs" fatal and Initialize is never
\* called. (A listener's serve goroutine may end the process at any point
\* before.)
C20_EmptyJoinURLsNeedsClientFileURLs ==
    /\ (serverCalled /\ joinURLs = <<>> /\ Initializes(srvCalls) # <<>>) =>
          /\ Len(clientURLs) >= 1
          /\ clientURLs \in ClientFiles
          /\ Len(Initializes(srvCalls)) = 1
          /\ Joins(srvCalls) = <<>>
          /\ ServerOpened /\ server.id = 0
    /\ (ClientOpened /\ joinURLs = <<>> /\ Len(clientURLs) = 0) =>
          /\ Initializes(srvCalls) = <<>>
          /\ Joins(srvCalls) = <<>>
          /\ server = NilServer
          /\ pc # "openServer_CheckURLs" =>
                /\ pc = "exit"
                /\ exit = "messaging client has no broker URLs" \/ ServeFatal
    /\ (ServerDecided /\ joinURLs = <<>> /\ server.id = 0
          /\ pc # "joinOrInitializeServer" /\ ~ServeFatal) =>
          /\ Len(Initializes(srvCalls)) = 1
          /\ Len(clientURLs) >= 1

\* the self-initialize is reached with URLs of the client's file
C20_Witness ==
    /\ serverCalled /\ joinURLs = <<>>
    /\ Len(clientURLs) = 1
    /\ Len(Initializes(srvCalls)) = 1
    /\ Initializes(srvCalls)[1].err = "nil"
    /\ serverRet = server

----------------------------------------------------------------------------
(* Vocabulary of the shutdown properties *)

\* the Close calls made on handles during the c-th call of Node.Close
CallsOf(c) == closeCalls[c]
\* the c-th call of Node.Close has returned (closeRet[c] is its result)
Returned(c) == c <= Len(closeRet)

IsListenerCall(e) == e.h \in {"clusterListener", "apiListener"}
IsServiceCall(e) == ~IsListenerCall(e)
ServiceCallsOf(c) == SelectSeq(CallsOf(c), IsServiceCall)

\* the same handle: the same field and, in the GraphiteServers slice, the
\* same element
SameHandle(e, f) ==
    /\ e.h = f.h
    /\ e.h = "GraphiteServers" => e.i = f.i

\* the position of each handle in the start sequence
AcquireRank == [h \in {AcquireOrder[i] : i \in 1..Len(AcquireOrder)} |-> AcquirePos(h)]

\* the shutdown order as the specification words it
ShutdownRank ==
    [clusterListener |-> 1, apiListener |-> 2, adminServer |-> 3,
     GraphiteServers |-> 4, OpenTSDBServer |-> 5, DataNode |-> 6,
     raftLog |-> 7, Broker |-> 8]
ClosedInOrder(e, f) ==
    \/ ShutdownRank[e.h] < ShutdownRank[f.h]
    \/ e.h = "GraphiteServers" /\ f.h = "GraphiteServers" /\ e.i < f.i

\* the handles the Node holds that are not listeners, as Close calls on them
\* in the order Close reaches them
Handle(h) == [h |-> h]
ServiceHandles ==
    (IF adminServer # "nil" THEN <<Handle("adminServer")>> ELSE <<>>)
    \o [j \in 1..Len(GraphiteServers) |->
           [h |-> "GraphiteServers", i |-> GraphiteServers[j]]]
    \o (IF OpenTSDBServer # "nil" THEN <<Handle("OpenTSDBServer")>> ELSE <<>>)
    \o (IF DataNode # NilServer THEN <<Handle("DataNode")>> ELSE <<>>)
    \o (IF raftLog # "nil" THEN <<Handle("raftLog")>> ELSE <<>>)
    \o (IF Broker # "nil" THEN <<Handle("Broker")>> ELSE <<>>)

\* the listeners that were ever opened, as Close calls on them
OpenedListeners ==
    (IF netListener["cluster"] # "none" THEN <<Handle("clusterListener")>> ELSE <<>>)
    \o (IF netListener["api"] # "none" THEN <<Handle("apiListener")>> ELSE <<>>)

\* nothing was ever opened on the Node or given to it
NeverOpened ==
    /\ OpenedListeners = <<>>
    /\ ServiceHandles = <<>>
    /\ clusterListener = NilListener /\ apiListener = NilListener

\* handle x was closed successfully in a call of Close before the c-th
ClosedBefore(x, c) ==
    \E d \in 1..(c - 1) : \E k \in 1..Len(closeCalls[d]) :
       /\ SameHandle(closeCalls[d][k], x)
       /\ closeCalls[d][k].err = "nil"
\* the c-th call of Close invoked the Close of handle x
AttemptedIn(x, c) ==
    \E k \in 1..Len(closeCalls[c]) : SameHandle(closeCalls[c][k], x)

----------------------------------------------------------------------------
(* Shutdown properties *)

\* C12: within a call of Node.Close the handles are closed in the order
\* cluster listener, API listener, admin server, Graphite servers in slice
\* order, OpenTSDB server, data node, raft log, broker (each handle closed
\* comes later in that order than the one closed just before it, hence than
\* every one closed before it); and a call in which
\* every close succeeded closed every handle the Node held: in particular
\* the raft log is not closed before the data node nor the broker before
\* the raft log.
C12_CloseOrder ==
    [](LET sh == ServiceHandles
           ol == OpenedListeners
       IN  \A c \in 1..closeCount :
              LET cs == CallsOf(c)
              IN  /\ \A i \in 1..(Len(cs) - 1) : ClosedInOrder(cs[i], cs[i + 1])
                  /\ (Returned(c) /\ closeRet[c] = "nil") =>
                        /\ \A k \in 1..Len(cs) : cs[k].err = "nil"
                        /\ \A k \in 1..Len(sh) : AttemptedIn(sh[k], c)
                        /\ \A k \in 1..Len(ol) :
                              \/ AttemptedIn(ol[k], c)
                              \/ \E d \in 1..(c - 1) : AttemptedIn(ol[k], d))

\* one call of Close that closes two listeners, the admin server, two
\* Graphite servers, the OpenTSDB server, the data node, the raft log and
\* the broker, all without error
C12_Witness ==
    /\ closeRet # <<>> /\ closeRet[1] = "nil"
    /\ Len(CallsOf(1)) = 9
    /\ CallsOf(1)[8].h = "raftLog" /\ CallsOf(1)[9].h = "Broker"

\* C13 as claimed: of two handles closed in one call of Close, the one
\* closed earlier was acquired later.
C13_StrictReverseOfAcquisition ==
    \A c \in 1..closeCount :
       LET cs == CallsOf(c)
       IN  \A i, j \in 1..Len(cs) :
              (i < j /\ cs[i].h # cs[j].h) =>
                 AcquirePos(cs[i].h) > AcquirePos(cs[j].h)

\* C13 as amended: the data node, the raft log and the broker are closed in
\* reverse of their acquisition and after every other handle; the listeners,
\* acquired first, are closed first, and the admin server, acquired before
\* the ingest servers, is closed before them.
C13_ReverseForCoreLayersOnly ==
    [](LET Core == {"DataNode", "raftLog", "Broker"}
           Front == {"clusterListener", "apiListener", "adminServer"}
           pos == AcquireRank
       IN  \A c \in 1..closeCount :
              LET cs == CallsOf(c)
              IN  \A i \in 1..Len(cs) :
                     /\ Started(cs[i].h)
                     /\ cs[i].h \in Core =>
                           \A j \in (i + 1)..Len(cs) :
                              cs[j].h \in Core /\ pos[cs[i].h] > pos[cs[j].h]
                     /\ cs[i].h \in Front =>
                           \A j \in (i + 1)..Len(cs) :
                              cs[j].h \notin Core => pos[cs[i].h] < pos[cs[j].h])

C13_Witness ==
    /\ closeCount >= 1
    /\ Len(CallsOf(1)) >= 5
    /\ CallsOf(1)[1].h = "clusterListener"
    /\ \E k \in 1..Len(CallsOf(1)) : CallsOf(1)[k].h = "DataNode"
    /\ CallsOf(1)[Len(CallsOf(1))].h = "Broker"

\* C14: a Close of a handle that returns an error ends that call of
\* Node.Close at once: Node.Close returns that same error, and the failed
\* Close is the last one invoked in that call.
C14_CloseFailureAborts ==
    /\ \A c \in 1..closeCount :
          LET cs == CallsOf(c)
          IN  \A k \in 1..Len(cs) :
                 cs[k].err # "nil" =>
                    /\ Returned(c)
                    /\ closeRet[c] = cs[k].err
                    /\ k = Len(cs)
    /\ \A c \in 1..Len(closeRet) :
          closeRet[c] # "nil" =>
             /\ CallsOf(c) # <<>>
             /\ CallsOf(c)[Len(CallsOf(c))].err = closeRet[c]

\* the data node's Close fails while handles remain behind it
C14_Witness ==
    /\ closeRet = <<CloseErr["DataNode"]>>
    /\ CallsOf(1) # <<>>
    /\ CallsOf(1)[Len(CallsOf(1))].h = "DataNode"
    /\ raftLog # "nil" /\ Broker # "nil"
    /\ pc = "idle"

\* C15 as claimed: a call of Close that runs to its end after an earlier
\* call has invoked the Close of every handle that is still open, that is,
\* of every handle the Node was given that no earlier call closed without
\* error; whether that handle's Close failed before or was never reached.
C15_RetryClosesWhatIsStillOpen ==
    \A c \in 2..Len(closeRet) :
       closeRet[c] = "nil" =>
          \A k \in 1..Len(ServiceHandles \o OpenedListeners) :
             LET x == (ServiceHandles \o OpenedListeners)[k]
             IN  ~ClosedBefore(x, c) => AttemptedIn(x, c)

\* C16: on a Node on which nothing was ever opened, Node.Close invokes no
\* Close of any handle, returns nil every time it is called, and does not
\* panic.
C16_CloseOfFreshNode ==
    (NeverOpened /\ closeCount >= 1) =>
       /\ \A c \in 1..closeCount : CallsOf(c) = <<>>
       /\ \A c \in 1..Len(closeRet) : closeRet[c] = "nil"
       /\ exit = ""
       /\ pc = "idle" => Len(closeRet) = closeCount

C16_Witness ==
    /\ NeverOpened
    /\ closeCount = 1
    /\ closeRet = <<"nil">>
    /\ pc = "idle"

\* C17: closing a listener is idempotent: the Close of a listener is invoked
\* at most once, the Node's field for it is nil from then on, and a call of
\* Node.Close that finds the field nil invokes nothing for it and goes on to
\* the next handle.
C17_ListenerCloseIdempotent ==
    /\ [](\A x \in {"clusterListener", "apiListener"} :
             /\ \A c \in 1..closeCount :
                   AttemptedIn(Handle(x), c) =>
                      /\ Len(SelectSeq(CallsOf(c), LAMBDA e : e.h = x)) = 1
                      /\ \A d \in 1..closeCount :
                            d # c => ~AttemptedIn(Handle(x), d)
             /\ (\E c \in 1..closeCount : AttemptedIn(Handle(x), c)) =>
                   (IF x = "clusterListener" THEN clusterListener ELSE apiListener)
                      = NilListener)
    /\ [][(pc = "idle" /\ closeCount' = closeCount + 1
              /\ clusterListener = NilListener) =>
             (closeCalls' = Append(closeCalls, <<>>) /\ closeRet' = closeRet
                 /\ pc' = "Close_apiListener")]_vars
    /\ [][(pc = "Close_apiListener" /\ pc' \notin {pc, "exit"}
              /\ apiListener = NilListener) =>
             (closeCalls' = closeCalls /\ closeRet' = closeRet
                 /\ pc' = "Close_adminServer")]_vars

\* a second call of Close, after a first one closed both listeners, has run
\* to its end
C17_Witness ==
    /\ closeRet = <<"nil", "nil">>
    /\ Len(CallsOf(1)) = 2
    /\ CallsOf(1)[1].h = "clusterListener" /\ CallsOf(1)[2].h = "apiListener"
    /\ CallsOf(2) = <<>>
    /\ netListener = [cluster |-> "closed", api |-> "closed"]

\* C18: when a listener's background serve task returns, an error whose text
\* contains "closed" (the error a listener that was closed gives) changes
\* nothing of the process, on every interleaving with the main path; any
\* other error ends the process with "server failed to serve".
C18_ServeErrorAfterClose ==
    /\ [](\A l \in Listeners :
             serveTask[l] = "returned" =>
                IF netListener[l] = "closed"
                THEN Contains(serveErr[l], "closed")
                ELSE pc = "exit" /\ exit = "server failed to serve")
    /\ [][\A l \in Listeners :
             (serveTask[l] = "serving" /\ serveTask'[l] = "returned") =>
                IF Contains(serveErr'[l], "closed")
                THEN /\ pc' = pc /\ exit' = exit
                     /\ closeCalls' = closeCalls /\ closeRet' = closeRet
                ELSE pc' = "exit" /\ exit' = "server failed to serve"]_vars
    /\ [](exit = "server failed to serve" =>
             \E l \in Listeners :
                serveTask[l] = "returned" /\ ~Contains(serveErr[l], "closed"))

\* both serve tasks have returned after Close closed their listeners, and
\* the process goes on
C18_Witness ==
    /\ \A l \in Listeners :
          /\ serveTask[l] = "returned"
          /\ serveErr[l] = ErrClosing
          /\ netListener[l] = "closed"
    /\ pc = "idle" /\ exit = ""
    /\ closeRet = <<"nil">>

\* C19: Close clears only the two listener fields. The other handles stay
\* set after their Close was invoked, so every call of Node.Close invokes
\* the Close of the non-listener handles the Node holds, from the first in
\* shutdown order up to the first one that fails, whether or not an earlier
\* call closed them.
C19_OnlyListenersCleared ==
    [](LET sh == ServiceHandles
       IN  \A c \in 1..closeCount :
              LET cs == CallsOf(c)
                  sc == SelectSeq(cs, IsServiceCall)
              IN  /\ Len(sc) <= Len(sh)
                  /\ \A k \in 1..Len(sc) :
                        /\ SameHandle(sc[k], sh[k])
                        /\ k < Len(sc) => sc[k].err = "nil"
                  /\ (Returned(c) /\ closeRet[c] = "nil") => Len(sc) = Len(sh)
                  /\ \A k \in 1..Len(cs) :
                        IsListenerCall(cs[k]) =>
                           /\ ~(\E d \in 1..(c - 1) : AttemptedIn(cs[k], d))
                           /\ (IF cs[k].h = "clusterListener"
                               THEN clusterListener ELSE apiListener) = NilListener)

\* two calls of Close ran to their end: the second invoked the Close of the
\* admin server, the data node, the raft log and the broker again, and of no
\* listener
C19_Witness ==
    /\ closeRet = <<"nil", "nil">>
    /\ Len(ServiceCallsOf(1)) >= 4
    /\ ServiceCallsOf(1)[1].h = "adminServer"
    /\ CallsOf(2) = [k \in 1..Len(ServiceCallsOf(1)) |->
                        [ServiceCallsOf(1)[k] EXCEPT !.call = 2]]
    /\ Len(CallsOf(1)) = Len(ServiceCallsOf(1)) + 2

====
